---- MODULE Spec2Model ----
(***************************************************************************)
(* Model of the ident_gen crate (src/src/lib.rs): the identifier generator *)
(* IdentGen / IdentGenOwned and the free function advance() they share.    *)
(*                                                                         *)
(* A char is modelled as a one-symbol string, a table (&[char], Vec<char>) *)
(* and a String as a sequence of chars.  Every String method the crate     *)
(* uses (push, pop, chars().last(), clear, len() == 0) works on whole      *)
(* chars, so the char sequence is the state these methods act on.          *)
(* Offsets are drawn from -MaxOff..MaxOff, far from the ends of isize, so  *)
(* the sum i + x of advance() is computed without wrap-around.             *)
(***************************************************************************)
EXTENDS Integers, Sequences, FiniteSets, TLC

VARIABLES
    kind,      \* which struct was constructed: "IdentGen" or "IdentGenOwned"
    table,     \* the field table
    ident,     \* the field ident
    panicked,  \* TRUE once a call has aborted (failed unwrap)
    call,      \* the last call: its name, arguments, the state before it, its result
    fixed,     \* the table has not been replaced since the identifier was last empty
    streak     \* number of successive next() calls since empty with the same table, or -1

vars == <<kind, table, ident, panicked, call, fixed, streak>>

----------------------------------------------------------------------------
(* Bounds of the model *)

\* longest identifier the model lets a call produce
MaxLen == 3

\* offsets passed to advance() range over -MaxOff..MaxOff
MaxOff == 5

Offsets == (0 - MaxOff)..MaxOff

----------------------------------------------------------------------------
(* Tables *)

DEFAULT_TABLE ==
    << "a", "b", "c", "d", "f", "e", "g", "h", "i", "j", "k", "l", "m", "n",
       "o", "p", "q", "r", "s", "t", "u", "v", "w", "x", "z", "_" >>

UPPER_SNAKE ==
    << "A", "B", "C", "D", "F", "E", "G", "H", "I", "J", "K", "L", "M", "N",
       "O", "P", "Q", "R", "S", "T", "U", "V", "W", "X", "Z", "_" >>

\* the tables callers pass to new / set_table: the empty one, the table of
\* the crate's tests, and one that shares no symbol with it and two (x, z)
\* with DEFAULT_TABLE.  All have distinct symbols.
TableArgs == { <<>>, <<"a", "b", "c">>, <<"x", "y", "z">> }

Range(s) == { s[k] : k \in 1..Len(s) }

----------------------------------------------------------------------------
(* Helpers of advance() *)

\* Option<usize> of table.iter().copied().position(|y| a == y): the 0-based
\* index of the first match
position(tbl, a) ==
    IF \E k \in 1..Len(tbl) : tbl[k] = a
    THEN [some |-> TRUE,
          val  |-> (CHOOSE k \in 1..Len(tbl) :
                        tbl[k] = a /\ \A j \in 1..(k - 1) : tbl[j] # a) - 1]
    ELSE [some |-> FALSE, val |-> 0]

\* String::pop: removes the last char, nothing on the empty string
pop(x) == IF Len(x) = 0 THEN x ELSE SubSeq(x, 1, Len(x) - 1)

\* String::push
push(x, c) == Append(x, c)

get_last_char(x) == x[Len(x)]

\* replace_last_char without the pop of the old last char
replace_last_char_keeps_old(x, c) == push(x, c)

replace_last_char(x, c) == push(pop(x), c)

\* results of a run of advance(): the identifier it leaves, the number of
\* recursive re-entries it made, and whether it aborted
Returned(id) == [ident |-> id, calls |-> 0, panic |-> FALSE]

Aborted(id) == [ident |-> id, calls |-> 0, panic |-> TRUE]

Reentered(r) == [r EXCEPT !.calls = @ + 1]

\* advance() with the carry branch re-entering with i - 1, as the empty
\* branch does, instead of y - tlen
RECURSIVE advance_carry_reenters_with_i_minus_1(_, _, _)
advance_carry_reenters_with_i_minus_1(tbl, id, i) ==
    IF Len(id) = 0
    THEN IF i > 0
         THEN IF Len(tbl) = 0
              THEN Aborted(id)
              ELSE Reentered(advance_carry_reenters_with_i_minus_1(
                                 tbl, push(id, tbl[1]), i - 1))
         ELSE Returned(id)
    ELSE IF i # 0
         THEN LET a == get_last_char(id)
                  p == position(tbl, a)
              IN  IF ~p.some
                  THEN Aborted(id)
                  ELSE
                  LET x == p.val
                      y == i + x
                  IN  IF i < 0
                      THEN IF y < 0
                           THEN Reentered(advance_carry_reenters_with_i_minus_1(
                                              tbl, pop(id), i + 1))
                           ELSE Returned(replace_last_char(id, tbl[y + 1]))
                      ELSE IF y >= Len(tbl)
                           THEN Reentered(advance_carry_reenters_with_i_minus_1(tbl,
                                    push(replace_last_char(id, tbl[Len(tbl)]), tbl[1]),
                                    i - 1))
                           ELSE Returned(replace_last_char(id, tbl[y + 1]))
         ELSE Returned(id)

\* advance() with the borrow branch re-entering without removing the last
\* symbol
RECURSIVE advance_borrow_keeps_digit(_, _, _)
advance_borrow_keeps_digit(tbl, id, i) ==
    IF Len(id) = 0
    THEN IF i > 0
         THEN IF Len(tbl) = 0
              THEN Aborted(id)
              ELSE Reentered(advance_borrow_keeps_digit(tbl, push(id, tbl[1]), i - 1))
         ELSE Returned(id)
    ELSE IF i # 0
         THEN LET a == get_last_char(id)
                  p == position(tbl, a)
              IN  IF ~p.some
                  THEN Aborted(id)
                  ELSE
                  LET x == p.val
                      y == i + x
                  IN  IF i < 0
                      THEN IF y < 0
                           THEN Reentered(advance_borrow_keeps_digit(tbl, id, i + 1))
                           ELSE Returned(replace_last_char(id, tbl[y + 1]))
                      ELSE IF y >= Len(tbl)
                           THEN Reentered(advance_borrow_keeps_digit(tbl,
                                    push(replace_last_char(id, tbl[Len(tbl)]), tbl[1]),
                                    y - Len(tbl)))
                           ELSE Returned(replace_last_char(id, tbl[y + 1]))
         ELSE Returned(id)

\* the function advance() of the crate: the identifier it leaves, whether it
\* aborted on an unwrap of None, and how often it re-entered itself
RECURSIVE advance(_, _, _)
advance(tbl, id, i) ==
    IF Len(id) = 0
    THEN IF i > 0
         THEN IF Len(tbl) = 0
              THEN Aborted(id)                      \* table.first().unwrap()
              ELSE Reentered(advance(tbl, push(id, tbl[1]), i - 1))
         ELSE Returned(id)
    ELSE IF i # 0
         THEN LET a == get_last_char(id)
                  p == position(tbl, a)
              IN  IF ~p.some
                  THEN Aborted(id)                  \* position(..).unwrap()
                  ELSE
                  LET x == p.val
                      y == i + x
                  IN  IF i < 0
                      THEN IF y < 0
                           THEN Reentered(advance(tbl, pop(id), i + 1))
                           ELSE Returned(replace_last_char(id, tbl[y + 1]))
                      ELSE IF y >= Len(tbl)
                           THEN Reentered(advance(tbl,
                                    push(replace_last_char(id, tbl[Len(tbl)]), tbl[1]),
                                    y - Len(tbl)))
                           ELSE Returned(replace_last_char(id, tbl[y + 1]))
         ELSE Returned(id)

----------------------------------------------------------------------------
(* Constructors *)

\* IdentGen::new without the substitution of the default table
IdentGen_new_keeps_empty(t) == t

IdentGen_new(t) == IF Len(t) = 0 THEN DEFAULT_TABLE ELSE t

IdentGenOwned_new(t) == IF Len(t) = 0 THEN t \o DEFAULT_TABLE ELSE t

\* x.chars().collect(): the chars of the string, in order
IdentGenOwned_from_str_table(x) == IdentGenOwned_new([k \in 1..Len(x) |-> x[k]])

\* set_table without the check for an empty table
set_table_accepts_empty(tbl, t) == [table |-> t, some |-> TRUE]

\* set_table: the table installed, and whether Some(self) was returned
set_table(tbl, t) ==
    IF Len(t) = 0
    THEN [table |-> tbl, some |-> FALSE]
    ELSE [table |-> t, some |-> TRUE]

\* the record of a call: op its name, i its offset, t its table argument,
\* ident/table/fixed the state before it, ret the text or table it returned,
\* some whether it returned a value (FALSE: set_table returned None),
\* calls the number of recursive re-entries of advance()
Call(op, i, t, ret, some, n) ==
    [op |-> op, i |-> i, t |-> t, ident |-> ident, table |-> table,
     fixed |-> fixed, ret |-> ret, some |-> some, calls |-> n]

NoCall ==
    [op |-> "new", i |-> 0, t |-> <<>>, ident |-> <<>>, table |-> <<>>,
     fixed |-> TRUE, ret |-> <<>>, some |-> TRUE, calls |-> 0]

\* the record of the constructor call op with the table argument t
Constructed(op, t) == [NoCall EXCEPT !.op = op, !.t = t]

Init ==
    /\ \E t \in TableArgs :
         \/ /\ kind = "IdentGen"
            /\ table = IdentGen_new(t)
            /\ call = Constructed("new", t)
         \/ /\ kind = "IdentGenOwned"
            /\ table = IdentGenOwned_new(t)
            /\ call = Constructed("new", t)
         \/ /\ kind = "IdentGenOwned"
            /\ table = IdentGenOwned_from_str_table(t)
            /\ call = Constructed("from_str_table", t)
    /\ ident = <<>>
    /\ panicked = FALSE
    /\ fixed = TRUE
    /\ streak = 0

----------------------------------------------------------------------------
(* Methods *)

\* self.advance(i) of either struct: advance(self.table, &mut self.ident, i)
\* and the identifier is returned
DoAdvance(op, i) ==
    LET r == advance(table, ident, i) IN
    /\ ~panicked
    /\ Len(r.ident) <= MaxLen
    /\ ident' = r.ident
    /\ panicked' = r.panic
    /\ call' = Call(op, i, <<>>, r.ident, TRUE, r.calls)
    /\ fixed' = (fixed \/ Len(r.ident) = 0)
    /\ streak' = IF Len(r.ident) = 0 /\ ~r.panic THEN 0
                 ELSE IF op = "next" /\ streak >= 0 /\ ~r.panic THEN streak + 1
                 ELSE 0 - 1
    /\ UNCHANGED <<kind, table>>

DoClear ==
    /\ ~panicked
    /\ ident' = <<>>
    /\ call' = Call("clear", 0, <<>>, <<>>, TRUE, 0)
    /\ fixed' = TRUE
    /\ streak' = 0
    /\ UNCHANGED <<kind, table, panicked>>

IdentGen_advance == kind = "IdentGen" /\ \E i \in Offsets : DoAdvance("advance", i)

IdentGen_next == kind = "IdentGen" /\ DoAdvance("next", 1)

IdentGen_prev == kind = "IdentGen" /\ DoAdvance("prev", 0 - 1)

IdentGen_clear == kind = "IdentGen" /\ DoClear

\* set_table that also drops from the identifier the symbols the new table
\* lacks
IdentGen_set_table_fixes_ident ==
    /\ kind = "IdentGen"
    /\ ~panicked
    /\ \E t \in TableArgs :
         LET r == set_table(table, t) IN
         /\ table' = r.table
         /\ ident' = SelectSeq(ident, LAMBDA c : c \in Range(r.table))
         /\ call' = Call("set_table", 0, t, <<>>, r.some, 0)
         /\ fixed' = (Len(ident) = 0 \/ (fixed /\ r.table = table))
         /\ streak' = IF Len(ident) = 0 THEN 0
                      ELSE IF r.table = table THEN streak ELSE 0 - 1
    /\ UNCHANGED <<kind, panicked>>

IdentGen_set_table ==
    /\ kind = "IdentGen"
    /\ ~panicked
    /\ \E t \in TableArgs :
         LET r == set_table(table, t) IN
         /\ table' = r.table
         /\ call' = Call("set_table", 0, t, <<>>, r.some, 0)
         /\ fixed' = (Len(ident) = 0 \/ (fixed /\ r.table = table))
         /\ streak' = IF Len(ident) = 0 THEN 0
                      ELSE IF r.table = table THEN streak ELSE 0 - 1
    /\ UNCHANGED <<kind, ident, panicked>>

IdentGen_table ==
    /\ kind = "IdentGen"
    /\ ~panicked
    /\ call' = Call("table", 0, <<>>, table, TRUE, 0)
    /\ UNCHANGED <<kind, table, ident, panicked, fixed, streak>>

IdentGenOwned_advance ==
    kind = "IdentGenOwned" /\ \E i \in Offsets : DoAdvance("advance", i)

IdentGenOwned_next == kind = "IdentGenOwned" /\ DoAdvance("next", 1)

IdentGenOwned_prev == kind = "IdentGenOwned" /\ DoAdvance("prev", 0 - 1)

IdentGenOwned_clear == kind = "IdentGenOwned" /\ DoClear

Next ==
    \/ IdentGen_advance
    \/ IdentGen_next
    \/ IdentGen_prev
    \/ IdentGen_clear
    \/ IdentGen_set_table
    \/ IdentGen_table
    \/ IdentGenOwned_advance
    \/ IdentGenOwned_next
    \/ IdentGenOwned_prev
    \/ IdentGenOwned_clear

Spec == Init /\ [][Next]_vars

----------------------------------------------------------------------------
TypeOK ==
    /\ kind \in {"IdentGen", "IdentGenOwned"}
    /\ panicked \in BOOLEAN
    /\ fixed \in BOOLEAN
    /\ Len(ident) <= MaxLen

----------------------------------------------------------------------------
(* Vocabulary of the properties *)

\* the calls that run advance()
AdvanceOps == {"advance", "next", "prev"}

Last(s) == s[Len(s)]

\* the k-th string of the bijective base-|tbl| enumeration: <<>> for 0, the
\* one-symbol strings in table order, then the two-symbol strings, ...
RECURSIVE Bijective(_, _)
Bijective(tbl, k) ==
    IF k = 0 THEN <<>>
    ELSE Append(Bijective(tbl, (k - 1) \div Len(tbl)), tbl[((k - 1) % Len(tbl)) + 1])

\* the identifier left by n successive next() calls
RECURSIVE IterNext(_, _, _)
IterNext(tbl, id, n) ==
    IF n = 0 THEN id ELSE IterNext(tbl, advance(tbl, id, 1).ident, n - 1)

\* the identifier left by n successive prev() calls
RECURSIVE IterPrev(_, _, _)
IterPrev(tbl, id, n) ==
    IF n = 0 THEN id ELSE IterPrev(tbl, advance(tbl, id, 0 - 1).ident, n - 1)

\* the number of next() calls that lead from empty to id under tbl, for an
\* identifier reached from empty with the table tbl
Pos(tbl, id) ==
    IF Len(id) = 0 THEN 0
    ELSE (Len(id) - 1) * Len(tbl) + position(tbl, Last(id)).val + 1

----------------------------------------------------------------------------
(* C1: from empty and with a fixed table, the k-th successive next() call  *)
(* returns the k-th string of the bijective base-|T| enumeration, so every *)
(* string over T is produced.                                              *)
C1_BijectiveEnumeration ==
    (streak >= 0 /\ ~panicked) => ident = Bijective(table, streak)

(* C2: carry rule.  An advance(i), i > 0, on an identifier whose last      *)
(* symbol is at index x with x + i >= |T| leaves what advance(x + i - |T|) *)
(* leaves from the identifier with its last symbol replaced by the table's *)
(* last symbol and the table's first symbol appended; next() on an         *)
(* identifier ending in the table's last symbol keeps every symbol and     *)
(* appends the first; with {a,b,c} the first four next() calls return      *)
(* a, b, c, ca, for IdentGen and IdentGenOwned alike.                      *)
C2_CarryRule ==
    /\ (/\ call.op \in AdvanceOps
        /\ call.i > 0
        /\ Len(call.ident) > 0
        /\ position(call.table, Last(call.ident)).some
        /\ position(call.table, Last(call.ident)).val + call.i >= Len(call.table))
       => LET T == call.table
              x == position(T, Last(call.ident)).val
              carried == SubSeq(call.ident, 1, Len(call.ident) - 1)
                            \o <<T[Len(T)], T[1]>>
          IN  /\ ~panicked
              /\ ident = advance(T, carried, x + call.i - Len(T)).ident
              /\ call.ret = ident
              /\ (call.i = 1 => ident = call.ident \o <<T[1]>>)
    /\ (table = <<"a", "b", "c">> /\ streak \in 1..4)
       => ident = << <<"a">>, <<"b">>, <<"c">>, <<"c", "a">> >>[streak]

C2_Witness ==
    /\ kind = "IdentGenOwned"
    /\ call.op = "next"
    /\ call.ident = <<"c">>
    /\ table = <<"a", "b", "c">>
    /\ streak = 4
    /\ ident = <<"c", "a">>

(* C3: additivity.  From an identifier reached from empty with a fixed     *)
(* table, advance(n) followed by advance(m) leaves what a single           *)
(* advance(n + m) leaves, whenever the position stays non-negative after n *)
(* and after n + m.                                                        *)
C3_Additivity ==
    [][(/\ call.op \in AdvanceOps
        /\ call.fixed
        /\ ~panicked
        /\ call'.op \in AdvanceOps
        /\ Pos(call.table, call.ident) + call.i >= 0
        /\ Pos(call.table, call.ident) + call.i + call'.i >= 0)
       => ident' = advance(call.table, call.ident, call.i + call'.i).ident]_vars

(* C4: from an identifier reached from empty with a fixed table,           *)
(* advance(-n), n >= 1, leaves what n successive prev() calls leave.       *)
C4_RegressIsIteratedPrev ==
    (call.op \in AdvanceOps /\ call.i < 0 /\ call.fixed)
    => (~panicked /\ ident = IterPrev(call.table, call.ident, 0 - call.i))

(* C5: from an identifier reached from empty with a fixed table,           *)
(* advance(n), n >= 1, leaves what n successive next() calls leave.        *)
C5_AdvanceIsIteratedNext ==
    (call.op \in AdvanceOps /\ call.i > 0 /\ call.fixed)
    => (/\ ~panicked
        /\ ident = IterNext(call.table, call.ident, call.i)
        /\ call.ret = ident)

C5_Witness ==
    /\ call.op = "advance"
    /\ call.fixed
    /\ call.i >= 4
    /\ Len(call.ident) = 1
    /\ Len(ident) = 3
    /\ ~panicked

(* C6: round trip.  advance(n), n >= 0, from the empty identifier followed *)
(* by advance(-n) leaves the identifier empty.                             *)
C6_RoundTripFromEmpty ==
    [][(/\ call.op \in AdvanceOps
        /\ Len(call.ident) = 0
        /\ call.i >= 0
        /\ ~panicked
        /\ call'.op \in AdvanceOps
        /\ call'.i = 0 - call.i)
       => (Len(ident') = 0 /\ ~panicked')]_vars

\* the state after advance(-n) applied to what advance(n) left from empty,
\* for an n that made the identifier grow to two symbols
C6_Witness ==
    /\ call.op = "advance"
    /\ call.i <= 0 - 4
    /\ Len(call.ident) >= 2
    /\ call.ident = advance(call.table, <<>>, 0 - call.i).ident
    /\ Len(ident) = 0
    /\ ~panicked

(* C7: saturation.  advance(i), i < 0, on the empty identifier leaves it   *)
(* empty, and from any reachable identifier a negative offset never fails. *)
C7_Saturation ==
    (call.op \in AdvanceOps /\ call.i < 0)
    => (/\ ~panicked
        /\ (Len(call.ident) = 0 => Len(ident) = 0))

\* C7 for identifiers reached from empty with the table unchanged
C7_SaturationWithFixedTable ==
    (call.op \in AdvanceOps /\ call.i < 0 /\ call.fixed)
    => (/\ ~panicked
        /\ (Len(call.ident) = 0 => Len(ident) = 0)
        /\ (Pos(call.table, call.ident) + call.i <= 0 => Len(ident) = 0))

(* C8: after set_table(T') with a non-empty T' that lacks the identifier's *)
(* last symbol, the next advance(i), i # 0, completes and treats the last  *)
(* symbol as being at index 0 of T'.                                       *)
C8_UndefinedSymbolTolerance ==
    (/\ call.op \in AdvanceOps
     /\ call.i # 0
     /\ Len(call.ident) > 0
     /\ Last(call.ident) \notin Range(call.table))
    => (/\ ~panicked
        /\ ident = advance(call.table,
                           SubSeq(call.ident, 1, Len(call.ident) - 1)
                               \o <<call.table[1]>>,
                           call.i).ident)

(* C9: no call ever aborts, whatever the sequence of new, advance, next,   *)
(* prev, set_table, clear and table.                                       *)
C9_NoPanic == ~panicked

(* C10: set_table with an empty table returns None and leaves the table    *)
(* and the identifier as they were, so every later advance does what it    *)
(* would have done; with a non-empty table it returns Some and installs    *)
(* that table.                                                             *)
C10_SetTable ==
    call.op = "set_table"
    => /\ ident = call.ident
       /\ ~panicked
       /\ IF Len(call.t) = 0
          THEN /\ ~call.some
               /\ table = call.table
               /\ \A i \in Offsets :
                    advance(table, ident, i) = advance(call.table, call.ident, i)
          ELSE /\ call.some
               /\ table = call.t

C10_Witness ==
    /\ call.op = "set_table"
    /\ Len(call.t) = 0
    /\ ~call.some
    /\ Len(ident) = 2
    /\ table = <<"a", "b", "c">>

(* C11: construction never fails and never yields an empty table: new      *)
(* (and from_str_table) with an empty table gives the 26-symbol default    *)
(* table a,b,c,d,f,e,g,...,x,z,_ and an empty identifier; with a non-empty *)
(* table it gives exactly that table and an empty identifier.              *)
C11_Construction ==
    call.op \in {"new", "from_str_table"}
    => /\ ~panicked
       /\ Len(ident) = 0
       /\ Len(table) > 0
       /\ IF Len(call.t) = 0
          THEN table = << "a", "b", "c", "d", "f", "e", "g", "h", "i", "j",
                          "k", "l", "m", "n", "o", "p", "q", "r", "s", "t",
                          "u", "v", "w", "x", "z", "_" >>
          ELSE table = call.t

C11_Witness ==
    /\ kind = "IdentGen"
    /\ call.op = "new"
    /\ Len(call.t) = 0
    /\ Len(table) = Len(DEFAULT_TABLE)
    /\ Len(ident) = 0

(* C12: with the default lower table, from empty, the first 26 successive  *)
(* next() calls return the 26 one-symbol identifiers in table order, and   *)
(* the 27th returns the two-symbol identifier that begins the next length  *)
(* tier, the first symbol doubled.                                         *)
C12_DefaultTableFirst27 ==
    (table = DEFAULT_TABLE /\ streak \in 1..(Len(DEFAULT_TABLE) + 1) /\ ~panicked)
    => IF streak <= Len(DEFAULT_TABLE)
       THEN ident = <<DEFAULT_TABLE[streak]>>
       ELSE ident = <<DEFAULT_TABLE[1], DEFAULT_TABLE[1]>>

\* the part of C12 the code meets: the 26 one-symbol identifiers in table
\* order, then an identifier of two symbols
C12_First26ThenTwoSymbols ==
    (table = DEFAULT_TABLE /\ streak \in 1..(Len(DEFAULT_TABLE) + 1) /\ ~panicked)
    => IF streak <= Len(DEFAULT_TABLE)
       THEN ident = <<DEFAULT_TABLE[streak]>>
       ELSE Len(ident) = 2

C14_InDigitStepIsLocal ==
    /\ (/\ call.op \in AdvanceOps
        /\ call.i # 0
        /\ Len(call.ident) > 0
        /\ position(call.table, Last(call.ident)).some
        /\ position(call.table, Last(call.ident)).val + call.i >= 0
        /\ position(call.table, Last(call.ident)).val + call.i < Len(call.table))
       => LET x == position(call.table, Last(call.ident)).val
          IN  /\ ~panicked
              /\ Len(ident) = Len(call.ident)
              /\ \A k \in 1..(Len(ident) - 1) : ident[k] = call.ident[k]
              /\ ident[Len(ident)] = call.table[x + call.i + 1]
              /\ table = call.table
              /\ call.ret = ident
              /\ call.calls = 0
    /\ (call.op \in AdvanceOps /\ call.i = 0)
       => (ident = call.ident /\ table = call.table /\ ~panicked /\ call.calls = 0)
    /\ (call.op \in AdvanceOps /\ call.table = DEFAULT_TABLE)
       => /\ (call.ident = <<>> /\ call.i = 1) => call.ret = <<"a">>
          /\ (call.ident = <<"a">> /\ call.i = 2) => call.ret = <<"c">>
          /\ (call.ident = <<"c">> /\ call.i = 0 - 1) => call.ret = <<"b">>

\* an in-digit step on an identifier of two symbols, backwards
C14_Witness ==
    /\ call.op \in AdvanceOps
    /\ call.i < 0
    /\ Len(call.ident) = 2
    /\ Len(ident) = 2
    /\ ident # call.ident
    /\ ident[1] = call.ident[1]
    /\ ~panicked

(* C15: set_table with a non-empty table changes only the table: the       *)
(* stored identifier is exactly what it was before the call, even when     *)
(* some of its symbols are absent from the new table, and later advance    *)
(* calls read its last symbol against the new table.                       *)
C15_SetTableChangesOnlyTable ==
    (call.op = "set_table" /\ Len(call.t) > 0)
    => /\ ident = call.ident
       /\ table = call.t
       /\ call.some
       /\ ~panicked
       /\ \A i \in Offsets :
            advance(table, ident, i) = advance(call.t, call.ident, i)

\* after a set_table whose table lacks the first and the last symbol of the
\* identifier
C15_Witness ==
    /\ call.op = "set_table"
    /\ Len(call.t) > 0
    /\ call.t # call.table
    /\ Len(ident) = 2
    /\ ident[1] \notin Range(table)
    /\ ident[2] \notin Range(table)
    /\ ident = call.ident

(* C16: every advance(i) call terminates, and the number of recursive      *)
(* re-entries it makes is at most the length of the identifier it returns. *)
C16_ReentriesWithinReturnedLength ==
    call.op \in AdvanceOps => call.calls <= Len(ident)

\* C16 as amended: every advance(i) call terminates after at most |i|
\* re-entries, and their number is at most the length of the identifier it
\* returns when i >= 0 and at most the length of the identifier it started
\* from when i < 0.
C16_ReentriesBounded ==
    call.op \in AdvanceOps
    => /\ call.calls <= (IF call.i < 0 THEN 0 - call.i ELSE call.i)
       /\ (call.i >= 0 => call.calls <= Len(ident))
       /\ (call.i < 0 => call.calls <= Len(call.ident))

\* a regress that removed two digits and returned the empty identifier
C16_Witness ==
    /\ call.op \in AdvanceOps
    /\ call.i < 0
    /\ call.calls = 2
    /\ Len(call.ident) = 2
    /\ Len(ident) = 0
    /\ ~panicked

(* C17: the table is never empty, in any state reached from new or         *)
(* from_str_table through set_table (accepted or rejected), advance, next, *)
(* prev and clear, so the precondition of advance always holds.            *)
C17_TableNonEmpty == Len(table) > 0

\* after a rejected set_table on an engine constructed with an empty table
\* argument that has advanced since
C17_Witness ==
    /\ call.op = "set_table"
    /\ Len(call.t) = 0
    /\ ~call.some
    /\ table = DEFAULT_TABLE
    /\ Len(ident) > 0

(* C18: next() and prev() are inverse on the identifiers reached from      *)
(* empty with a fixed table: next() then prev() restores the identifier,   *)
(* and on a non-empty identifier prev() then next() restores it as well.   *)
C18_NextPrevInverse ==
    [][/\ (/\ call.op \in AdvanceOps
           /\ call.i = 1
           /\ call.fixed
           /\ ~panicked
           /\ call'.op \in AdvanceOps
           /\ call'.i = 0 - 1)
          => (ident' = call.ident /\ ~panicked')
       /\ (/\ call.op \in AdvanceOps
           /\ call.i = 0 - 1
           /\ call.fixed
           /\ Len(call.ident) > 0
           /\ ~panicked
           /\ call'.op \in AdvanceOps
           /\ call'.i = 1)
          => (ident' = call.ident /\ ~panicked')]_vars

\* the state after prev() has undone a next() that carried into a second
\* symbol
C18_Witness ==
    /\ call.op = "prev"
    /\ call.fixed
    /\ Len(call.ident) = 2
    /\ Len(ident) = 1
    /\ call.ident = advance(table, ident, 1).ident
    /\ ~panicked

\* id is empty, or copies of the last symbol of tbl followed by one symbol of tbl
Shape(tbl, id) ==
    \/ Len(id) = 0
    \/ /\ \A k \in 1..(Len(id) - 1) : id[k] = tbl[Len(tbl)]
       /\ id[Len(id)] \in Range(tbl)

====
